---- MODULE Spec2Model ----
(***************************************************************************)
(* Model of the mastermind rules engine: GameBuilder (src/game/builder.rs) *)
(* and Game (src/game/mod.rs).  Option<T> is modelled as a sequence of     *)
(* length 0 (None) or 1 (Some).  Rust indices are 0-based; sequences here  *)
(* are 1-based, and index arguments of hits() keep their Rust value.       *)
(***************************************************************************)
EXTENDS Integers, Sequences, FiniteSets, TLC

VARIABLES pc, builder, game, call, rets

vars == <<pc, builder, game, call, rets>>

(* ---------------------------- bounds ---------------------------------- *)

\* peg values offered to GameBuilder::pegs and bytes produced by the rng:
\* 0..MaxPeg.  Guesses take further values (Bump), and the scoring
\* specification has its own, wider alphabet
MaxPeg == 0
\* GameBuilder::peg_count arguments: 0..MaxCount
MaxCount == 1
\* GameBuilder::peg_range arguments: 0..MaxRange
MaxRange == 1
\* GameBuilder::max_guesses arguments: 0..MaxLimit
MaxLimit == 2
\* peg values and sequence lengths of the scoring specification
ScoreMaxPeg == 2
ScoreMaxLen == 3

(* ------------------------ program constants --------------------------- *)

DefaultPegCount == 4
DefaultPegRange == 6
DefaultMaxGuesses == 12
U8 == 256

(* ----------------------------- helpers -------------------------------- *)

None == <<>>
Some(x) == <<x>>

Min(a, b) == IF a < b THEN a ELSE b

\* all sequences over S of length at most n
SeqsUpTo(S, n) == UNION {[1..k -> S] : k \in 0..n}

(* ------------------- scoring: Game::hits, mod.rs 28-59 ----------------- *)

\* the two Vec<Option<&u8>> built from the clones, and the two counters
ScoreInit(real, guess) ==
    [real      |-> [i \in 1..Len(real) |-> Some(real[i])],
     guess     |-> [j \in 1..Len(guess) |-> Some(guess[j])],
     hits      |-> 0,
     near_hits |-> 0,
     panic     |-> FALSE]

\* body of the first loop for position i (1-based); guess[i] is a checked
\* index, so a guess shorter than the secret panics there
Pass1Step(st, i) ==
    IF st.panic THEN st
    ELSE IF i > Len(st.guess) THEN [st EXCEPT !.panic = TRUE]
    ELSE IF st.guess[i] = st.real[i]
         THEN [st EXCEPT !.guess[i] = None, !.real[i] = None,
                         !.hits = (@ + 1) % U8]
         ELSE st

\* mutant: a consumed secret peg still pairs (the is_some test is dropped)
Pass2StepNoIsSome(st, i, j) ==
    IF st.real[i] = st.guess[j] /\ i # j
    THEN [st EXCEPT !.guess[j] = None, !.real[i] = None,
                    !.near_hits = (@ + 1) % U8]
    ELSE st

\* mutant: the matched guess peg is not consumed
Pass2StepKeepGuess(st, i, j) ==
    IF st.real[i] # None /\ st.real[i] = st.guess[j] /\ i # j
    THEN [st EXCEPT !.real[i] = None, !.near_hits = (@ + 1) % U8]
    ELSE st

\* body of the nested loop for secret position i and guess position j
Pass2Step(st, i, j) ==
    IF st.real[i] # None /\ st.real[i] = st.guess[j] /\ i # j
    THEN [st EXCEPT !.guess[j] = None, !.real[i] = None,
                    !.near_hits = (@ + 1) % U8]
    ELSE st

RECURSIVE Pass1(_, _)
\* the first loop from position i on: for (i, real_peg) in real.iter_mut()
Pass1(st, i) ==
    IF i > Len(st.real) \/ st.panic THEN st
    ELSE Pass1(Pass1Step(st, i), i + 1)

RECURSIVE Pass2(_, _, _)
\* the nested loops from (i, j) on, i outer and ascending, j inner and
\* ascending
Pass2(st, i, j) ==
    IF st.panic \/ i > Len(st.real) THEN st
    ELSE IF j > Len(st.guess) THEN Pass2(st, i + 1, 1)
    ELSE Pass2(Pass2Step(st, i, j), i, j + 1)

\* the state at the end of the closure of hits(): both Option vectors and
\* the two counters
Score(real, guess) == Pass2(Pass1(ScoreInit(real, guess), 1), 1, 1)

(* ------------------- Game: mod.rs 7-26 and 28-29 ----------------------- *)

\* what an operation returned: kind is "Ok", "NoGuessesLeft", "Some", "None",
\* "Game" (build), "Self" (a builder setter), "Ref" (an accessor) or "panic"
Ret(kind, h, n) == [kind |-> kind, hits |-> h, near_hits |-> n]

\* mutant: an index past the end is clamped to the last entry
HitsAtClamped(g, index) ==
    IF g.guesses # <<>>
    THEN LET k  == IF index < Len(g.guesses) THEN index + 1 ELSE Len(g.guesses)
             st == Score(g.pegs, g.guesses[k])
         IN IF st.panic THEN Ret("panic", 0, 0)
            ELSE Ret("Some", st.hits, st.near_hits)
    ELSE Ret("None", 0, 0)

\* hits(index): self.guesses.get(index).map(closure); index is 0-based
HitsAt(g, index) ==
    IF index < Len(g.guesses)
    THEN LET st == Score(g.pegs, g.guesses[index + 1])
         IN IF st.panic THEN Ret("panic", 0, 0)
            ELSE Ret("Some", st.hits, st.near_hits)
    ELSE Ret("None", 0, 0)

\* mutant: the limit test is off by one
NoGuessesLeftLate(g) ==
    /\ g.max_guesses # None
    /\ Len(g.guesses) = g.max_guesses[1] + 1

\* mutant: the limit is only enforced once a guess has been made
NoGuessesLeftAfterFirst(g) ==
    /\ g.max_guesses # None
    /\ Len(g.guesses) = g.max_guesses[1]
    /\ Len(g.guesses) > 0

\* the test that opens guess(): Some(max_guesses) and len == max_guesses
NoGuessesLeft(g) ==
    /\ g.max_guesses # None
    /\ Len(g.guesses) = g.max_guesses[1]

\* mutant: the guess is put in front of the history
PushFront(g, guess) == [g EXCEPT !.guesses = <<guess>> \o @]

\* self.guesses.push(guess.to_owned())
Push(g, guess) == [g EXCEPT !.guesses = Append(@, guess)]

\* mutant: the guess is recorded before the limit is tested
GuessPushFirst(g, guess) ==
    IF NoGuessesLeft(g)
    THEN [game |-> Push(g, guess), ret |-> Ret("NoGuessesLeft", 0, 0)]
    ELSE LET g2 == Push(g, guess)
             r  == HitsAt(g2, Len(g2.guesses) - 1)
         IN [game |-> g2,
             ret  |-> IF r.kind = "Some" THEN Ret("Ok", r.hits, r.near_hits)
                      ELSE Ret("panic", 0, 0)]

\* guess(): the game after the call and what the call returned; the unwrap
\* of hits(len - 1) cannot see None, a panic inside hits() propagates
GuessResult(g, guess) ==
    IF NoGuessesLeft(g)
    THEN [game |-> g, ret |-> Ret("NoGuessesLeft", 0, 0)]
    ELSE LET g2 == Push(g, guess)
             r  == HitsAt(g2, Len(g2.guesses) - 1)
         IN [game |-> g2,
             ret  |-> IF r.kind = "Some" THEN Ret("Ok", r.hits, r.near_hits)
                      ELSE Ret("panic", 0, 0)]

(* ------------------- GameBuilder: builder.rs 5-85 ---------------------- *)

UnwrapOr(opt, d) == IF opt = None THEN d ELSE opt[1]

\* GameBuilder::default(): every Option is None, the flag is false
BuilderDefault ==
    [pegs |-> None, peg_range |-> None, peg_count |-> None,
     max_guesses |-> None, unlimited_guesses |-> FALSE]

\* the Game fields before build() has produced a Game
NoGame == [pegs |-> <<>>, guesses |-> <<>>, max_guesses |-> None]

\* bytes the rng may return, and peg values a caller may pass
PegValues == 0..MaxPeg

\* explicit peg sequences a caller may pass to pegs()
PegInputs == SeqsUpTo(PegValues, DefaultPegCount)

\* mutant: explicit pegs are taken without the length test
CalculatePegsUnchecked(b) ==
    LET peg_count == UnwrapOr(b.peg_count, DefaultPegCount)
    IN IF b.pegs # None
       THEN {[panic |-> FALSE, pegs |-> b.pegs[1]]}
       ELSE IF peg_count = 0
            THEN {[panic |-> FALSE, pegs |-> <<>>]}
            ELSE IF UnwrapOr(b.peg_range, DefaultPegRange) = 0
            THEN {[panic |-> TRUE, pegs |-> <<>>]}
            ELSE {[panic |-> FALSE, pegs |-> p] :
                    p \in [1..peg_count ->
                             {r % UnwrapOr(b.peg_range, DefaultPegRange) :
                                r \in PegValues}]}

\* calculate_pegs(): the outcomes the call can have.  Explicit pegs of the
\* wrong length panic; otherwise peg_count bytes are drawn and reduced modulo
\* the range: no byte is drawn for a count of 0, and a range of 0 panics at
\* the first remainder
CalculatePegs(b) ==
    LET peg_count == UnwrapOr(b.peg_count, DefaultPegCount)
    IN IF b.pegs # None
       THEN IF Len(b.pegs[1]) # peg_count
            THEN {[panic |-> TRUE, pegs |-> <<>>]}
            ELSE {[panic |-> FALSE, pegs |-> b.pegs[1]]}
       ELSE IF peg_count = 0
            THEN {[panic |-> FALSE, pegs |-> <<>>]}
            ELSE IF UnwrapOr(b.peg_range, DefaultPegRange) = 0
            THEN {[panic |-> TRUE, pegs |-> <<>>]}
            ELSE {[panic |-> FALSE, pegs |-> p] :
                    p \in [1..peg_count ->
                             {r % UnwrapOr(b.peg_range, DefaultPegRange) :
                                r \in PegValues}]}

\* mutant: a configured max_guesses wins over the unlimited flag
EffectiveLimitMaxFirst(b) ==
    IF b.max_guesses # None THEN b.max_guesses
    ELSE IF ~b.unlimited_guesses THEN Some(DefaultMaxGuesses) ELSE None

\* the max_guesses block of From<GameBuilder> for Game
EffectiveLimit(b) ==
    IF ~b.unlimited_guesses
    THEN IF b.max_guesses # None THEN b.max_guesses
         ELSE Some(DefaultMaxGuesses)
    ELSE None

\* From<GameBuilder> for Game: the outcomes of build()
From(b) ==
    {[panic |-> o.panic,
      game  |-> IF o.panic THEN NoGame
                ELSE [pegs |-> o.pegs, guesses |-> <<>>,
                      max_guesses |-> EffectiveLimit(b)]] :
       o \in CalculatePegs(b)}

(* ----------------------------- actions -------------------------------- *)

\* `call` records the last operation, its argument and what it returned
Call(op, arg, ret) == [op |-> op, arg |-> arg, ret |-> ret]

\* the slice an accessor call handed out
RefRet(slice) == [kind |-> "Ref", hits |-> 0, near_hits |-> 0, out |-> slice]

\* a builder setter hands the builder back; the builder variable holds it
SetterCall == Call("set", <<>>, Ret("Self", 0, 0))

\* GameBuilder::new()
Init ==
    /\ pc = "builder"
    /\ builder = BuilderDefault
    /\ game = NoGame
    /\ call = Call("new", <<>>, Ret("Self", 0, 0))
    /\ rets = <<>>

SetPegs(pegs) ==
    /\ pc = "builder"
    /\ builder' = [builder EXCEPT !.pegs = Some(pegs)]
    /\ call' = SetterCall
    /\ UNCHANGED <<pc, game, rets>>

SetPegRange(range) ==
    /\ pc = "builder"
    /\ builder' = [builder EXCEPT !.peg_range = Some(range)]
    /\ call' = SetterCall
    /\ UNCHANGED <<pc, game, rets>>

SetPegCount(count) ==
    /\ pc = "builder"
    /\ builder' = [builder EXCEPT !.peg_count = Some(count)]
    /\ call' = SetterCall
    /\ UNCHANGED <<pc, game, rets>>

SetMaxGuesses(guesses) ==
    /\ pc = "builder"
    /\ builder' = [builder EXCEPT !.max_guesses = Some(guesses)]
    /\ call' = SetterCall
    /\ UNCHANGED <<pc, game, rets>>

SetUnlimitedGuesses(flag) ==
    /\ pc = "builder"
    /\ builder' = [builder EXCEPT !.unlimited_guesses = flag]
    /\ call' = SetterCall
    /\ UNCHANGED <<pc, game, rets>>

\* build(): self.into().  The builder is moved into the call (it is the
\* call's argument), so nothing of it is left afterwards; a panic ends the
\* program with no Game
Build ==
    /\ pc = "builder"
    /\ \E o \in From(builder) :
         /\ pc' = IF o.panic THEN "panicked" ELSE "game"
         /\ game' = o.game
         /\ call' = Call("build", builder,
                         IF o.panic THEN Ret("panic", 0, 0)
                         ELSE Ret("Game", 0, 0))
    /\ builder' = BuilderDefault
    /\ UNCHANGED rets

\* guess(guess); rets keeps, for every recorded entry, what the call that
\* recorded it returned.  A panic inside hits() ends the program after the
\* push
GuessCall(guess) ==
    /\ pc = "game"
    /\ LET r == GuessResult(game, guess)
       IN /\ game' = r.game
          /\ call' = Call("guess", guess, r.ret)
          /\ pc' = IF r.ret.kind = "panic" THEN "panicked" ELSE "game"
          /\ rets' = IF Len(r.game.guesses) > Len(game.guesses)
                     THEN Append(rets, r.ret) ELSE rets
    /\ UNCHANGED builder

\* hits(index)
HitsCall(index) ==
    /\ pc = "game"
    /\ LET r == HitsAt(game, index)
       IN /\ call' = Call("hits", <<index>>, r)
          /\ pc' = IF r.kind = "panic" THEN "panicked" ELSE "game"
    /\ UNCHANGED <<builder, game, rets>>

\* pegs(): &self.pegs
PegsCall ==
    /\ pc = "game"
    /\ call' = Call("pegs", <<>>, RefRet(game.pegs))
    /\ UNCHANGED <<pc, builder, game, rets>>

\* guesses(): &self.guesses
GuessesCall ==
    /\ pc = "game"
    /\ call' = Call("guesses", <<>>, RefRet(game.guesses))
    /\ UNCHANGED <<pc, builder, game, rets>>

(* ------------------------- the game session --------------------------- *)

Bump(s) == [i \in 1..Len(s) |-> (s[i] + 1) % U8]
Front(s) == SubSeq(s, 1, Len(s) - 1)

\* guesses offered against secret s: the secret itself, another sequence of
\* its length, one a peg shorter and one a peg longer
GuessInputs(s) ==
    {s, Bump(s), Append(s, 0)}
      \cup (IF s = <<>> THEN {} ELSE {Front(s)})

\* the model stops offering guesses at this history length
MaxGuesses == MaxLimit + 1

Guess ==
    /\ Len(game.guesses) < MaxGuesses
    /\ \E guess \in GuessInputs(game.pegs) : GuessCall(guess)

Hits == \E index \in 0..Len(game.guesses) : HitsCall(index)

Next ==
    \/ \E pegs \in PegInputs : SetPegs(pegs)
    \/ \E range \in 0..MaxRange : SetPegRange(range)
    \/ \E count \in 0..MaxCount : SetPegCount(count)
    \/ \E guesses \in 0..MaxLimit : SetMaxGuesses(guesses)
    \/ \E flag \in BOOLEAN : SetUnlimitedGuesses(flag)
    \/ Build
    \/ Guess
    \/ Hits
    \/ PegsCall
    \/ GuessesCall

Spec == Init /\ [][Next]_vars

(* ---------------------- the scoring specification --------------------- *)

\* the cases of tests::hits_returns_accurate_hits: secret, guess, hits, near
TestVectors ==
    {<<<<1, 1, 2, 2>>, <<1, 1, 1, 1>>, 2, 0>>,
     <<<<1, 1, 2, 2>>, <<0, 2, 1, 4>>, 0, 2>>,
     <<<<1, 1, 2, 2>>, <<1, 2, 3, 1>>, 1, 2>>,
     <<<<1, 1, 2, 2>>, <<1, 1, 2, 2>>, 4, 0>>,
     <<<<1, 5, 6, 3>>, <<0, 0, 0, 0>>, 0, 0>>,
     <<<<1, 5, 6, 3>>, <<0, 0, 1, 0>>, 0, 1>>,
     <<<<1, 5, 6, 3>>, <<0, 5, 1, 0>>, 1, 1>>,
     <<<<1, 5, 6, 3>>, <<3, 5, 1, 0>>, 1, 2>>}

ScoreSeqs == SeqsUpTo(0..ScoreMaxPeg, ScoreMaxLen)

\* GameBuilder::new().pegs(s).peg_count(s.len())
ExplicitBuilder(s) ==
    [BuilderDefault EXCEPT !.pegs = Some(s), !.peg_count = Some(Len(s))]

\* a Game just built from explicit pegs, with the default guess limit
InitScore ==
    /\ pc = "game"
    /\ builder = BuilderDefault
    /\ \E s \in ScoreSeqs \cup {t[1] : t \in TestVectors} :
         \E o \in From(ExplicitBuilder(s)) :
            /\ ~o.panic
            /\ game = o.game
            /\ call = Call("build", ExplicitBuilder(s), Ret("Game", 0, 0))
    /\ rets = <<>>

\* the first guess of the game
FirstGuess ==
    /\ game.guesses = <<>>
    /\ \E guess \in ScoreSeqs \cup
                      {t[2] : t \in {u \in TestVectors : u[1] = game.pegs}} :
          GuessCall(guess)

NextScore == FirstGuess

SpecScore == InitScore /\ [][NextScore]_vars

(* ------------------------------ claims -------------------------------- *)

\* a step that is a guess() call: every other operation leaves another op in
\* `call`
IsGuess(c) == c.op = "guess"

\* positions of secret and guess (of one length) that are not exact hits
NonHits(S, G) == {i \in 1..Len(S) : G[i] # S[i]}

CountOf(seq, P, v) == Cardinality({i \in P : seq[i] = v})

RECURSIVE SumMin(_, _, _)
SumMin(V, S, G) ==
    IF V = {} THEN 0
    ELSE LET v == CHOOSE x \in V : TRUE
         IN Min(CountOf(S, NonHits(S, G), v), CountOf(G, NonHits(S, G), v))
              + SumMin(V \ {v}, S, G)

ClassicHits(S, G) == Cardinality({i \in 1..Len(S) : G[i] = S[i]})
ClassicNearHits(S, G) == SumMin({S[i] : i \in 1..Len(S)}, S, G)

\* C1: a successful guess of the secret's length returns the classic
\* Mastermind score: hits is the number of positions where guess and secret
\* agree, near_hits is the sum over peg values of the smaller of the two
\* counts of that value among the positions that are not hits; the cases of
\* the test suite come out as the tests say.
C1_ClassicScore ==
    /\ (IsGuess(call) /\ call.ret.kind = "Ok"
          /\ Len(call.arg) = Len(game.pegs))
         => /\ call.ret.hits = ClassicHits(game.pegs, call.arg)
            /\ call.ret.near_hits = ClassicNearHits(game.pegs, call.arg)
    /\ \A t \in TestVectors :
         (IsGuess(call) /\ game.pegs = t[1] /\ call.arg = t[2])
           => call.ret = Ret("Ok", t[3], t[4])

\* a guess with one hit and two near hits, one of them on a repeated value
C1_Witness ==
    /\ IsGuess(call)
    /\ game.pegs = <<1, 1, 2, 2>>
    /\ call.arg = <<1, 2, 3, 1>>
    /\ call.ret = Ret("Ok", 1, 2)

Consumed(v) == Cardinality({i \in 1..Len(v) : v[i] = None})

\* C6: for a guess of the secret's length n, hits + near_hits <= n, and every
\* counted match consumed one secret position and one guess position of its
\* own: at the end of scoring the number of consumed positions on each side
\* is exactly hits + near_hits.
C6_NoPegCountedTwice ==
    (IsGuess(call) /\ call.ret.kind = "Ok" /\ Len(call.arg) = Len(game.pegs))
      => LET st == Score(game.pegs, call.arg)
         IN /\ call.ret.hits + call.ret.near_hits <= Len(game.pegs)
            /\ call.ret.hits = st.hits /\ call.ret.near_hits = st.near_hits
            /\ Consumed(st.real) = st.hits + st.near_hits
            /\ Consumed(st.guess) = st.hits + st.near_hits

\* a guess in which a value repeated in the guess meets one copy in the secret
C6_Witness ==
    /\ IsGuess(call)
    /\ game.pegs = <<0, 1, 2>>
    /\ call.arg = <<1, 0, 0>>
    /\ call.ret = Ret("Ok", 0, 2)

\* C2: with a finite limit L, a guess() call returns NoGuessesLeft exactly
\* when L guesses are already recorded, and a call with a guess of the
\* secret's length succeeds exactly when fewer than L are recorded, whatever
\* the earlier scores were; once L guesses are recorded the history never
\* changes again.
C2_LimitDecidesSuccess ==
    [][(pc = "game" /\ game.max_guesses # None)
         => /\ IsGuess(call')
               => /\ (call'.ret.kind = "NoGuessesLeft")
                       <=> ~(Len(game.guesses) < game.max_guesses[1])
                  /\ Len(call'.arg) = Len(game.pegs)
                       => ((call'.ret.kind = "Ok")
                             <=> Len(game.guesses) < game.max_guesses[1])
            /\ Len(game.guesses) = game.max_guesses[1]
                 => game'.guesses = game.guesses]_vars

\* limit 2: a perfect match, another accepted guess, then a rejected one
C2_Witness ==
    /\ pc = "game"
    /\ game.max_guesses = Some(2)
    /\ Len(game.pegs) > 0
    /\ Len(rets) = 2
    /\ rets[1] = Ret("Ok", Len(game.pegs), 0)
    /\ IsGuess(call)
    /\ call.ret.kind = "NoGuessesLeft"

\* C3: a guess() call that returns NoGuessesLeft leaves the Game as it was:
\* secret, history and limit are unchanged and the guess is not recorded.
C3_RejectedGuessChangesNothing ==
    [][(IsGuess(call') /\ call'.ret.kind = "NoGuessesLeft")
         => (game' = game /\ rets' = rets /\ pc' = pc)]_vars

\* a rejected guess that differs from the one recorded entry
C3_Witness ==
    /\ IsGuess(call)
    /\ call.ret.kind = "NoGuessesLeft"
    /\ Len(game.guesses) = 1
    /\ game.guesses[1] # call.arg

\* C5: with a finite limit L the history never holds more than L guesses.
C5_HistoryWithinLimit ==
    game.max_guesses # None => Len(game.guesses) <= game.max_guesses[1]

\* a full history, after a hits() call that found no entry
C5_Witness ==
    /\ game.max_guesses = Some(1)
    /\ Len(game.guesses) = 1
    /\ call.op = "hits"
    /\ call.ret.kind = "None"

\* C7: build() with explicit pegs panics and leaves no Game when their
\* length differs from the peg count in effect (the configured one, or 4);
\* when the lengths agree it produces a Game whose pegs are the explicit
\* sequence.
C7_ExplicitPegsLength ==
    (call.op = "build" /\ call.arg.pegs # None)
      => IF Len(call.arg.pegs[1])
              # (IF call.arg.peg_count = None THEN 4
                 ELSE call.arg.peg_count[1])
         THEN call.ret.kind = "panic" /\ pc = "panicked" /\ game = NoGame
         ELSE /\ call.ret.kind = "Game" /\ pc = "game"
              /\ game.pegs = call.arg.pegs[1]

\* explicit pegs of a length other than 4 and no peg_count: build() failed
C7_Witness ==
    /\ call.op = "build"
    /\ call.arg.pegs # None
    /\ call.arg.peg_count = None
    /\ Len(call.arg.pegs[1]) = 3
    /\ pc = "panicked"

\* C8: the limit of a built Game is decided by the builder's values at
\* build(): none when the unlimited flag is true, whatever max_guesses holds;
\* otherwise max_guesses, or 12 when it was never set.  A Game without a
\* limit never answers NoGuessesLeft.
C8_EffectiveLimit ==
    /\ (call.op = "build" /\ call.ret.kind = "Game")
         => game.max_guesses =
              (IF call.arg.unlimited_guesses THEN None
               ELSE IF call.arg.max_guesses = None THEN Some(12)
               ELSE call.arg.max_guesses)
    /\ (IsGuess(call) /\ game.max_guesses = None)
         => call.ret.kind # "NoGuessesLeft"

\* built with the flag true and a max_guesses of 0 also set
C8_Witness ==
    /\ call.op = "build"
    /\ call.ret.kind = "Game"
    /\ call.arg.unlimited_guesses
    /\ call.arg.max_guesses = Some(0)
    /\ game.max_guesses = None

\* C9: hits(k) is absent exactly for k at or past the end of the history;
\* for a recorded k it is, in every later state, the pair the guess() call
\* that recorded entry k returned; and a hits() call changes nothing.
C9_HitsIsPureQuery ==
    /\ [](pc = "game"
            => \A k \in 0..(Len(game.guesses) + 1) :
                 /\ (HitsAt(game, k).kind = "None") <=> ~(k < Len(game.guesses))
                 /\ k < Len(game.guesses)
                      => HitsAt(game, k)
                           = Ret("Some", rets[k + 1].hits, rets[k + 1].near_hits))
    /\ [][call'.op = "hits"
            => (game' = game /\ rets' = rets /\ builder' = builder)]_vars

\* hits(0) asked after two more guesses, one accepted and one rejected
C9_Witness ==
    /\ call.op = "hits"
    /\ call.arg = <<0>>
    /\ call.ret.kind = "Some"
    /\ game.max_guesses = Some(2)
    /\ Len(game.guesses) = 2
    /\ rets[1] # rets[2]

\* C10: a successful guess(G) appends G to the history and changes nothing
\* else; no operation on a Game changes its secret or its limit or an
\* existing history entry; pegs() and guesses() hand out the secret and the
\* history.
C10_GuessAppendsOnly ==
    /\ [][pc = "game"
            => /\ game'.pegs = game.pegs
               /\ game'.max_guesses = game.max_guesses
               /\ SubSeq(game'.guesses, 1, Len(game.guesses)) = game.guesses
               /\ (IsGuess(call') /\ call'.ret.kind = "Ok")
                    => game'.guesses = Append(game.guesses, call'.arg)
               /\ ~IsGuess(call') => game'.guesses = game.guesses]_vars
    /\ [](call.op = "pegs" => call.ret.out = game.pegs)
    /\ [](call.op = "guesses" => call.ret.out = game.guesses)

\* guesses() after two different accepted guesses
C10_Witness ==
    /\ call.op = "guesses"
    /\ Len(call.ret.out) = 2
    /\ call.ret.out[1] # call.ret.out[2]
    /\ rets[1].kind = "Ok" /\ rets[2].kind = "Ok"

\* C4: a guess() call whose argument is not of the secret's length returns an
\* error (no score, no panic) and does not record the guess.
C4_WrongLengthRejected ==
    [][(pc = "game" /\ IsGuess(call') /\ Len(call'.arg) # Len(game.pegs))
         => /\ call'.ret.kind \notin {"Ok", "panic"}
            /\ game'.guesses = game.guesses]_vars

====
